---- MODULE Spec2Model ----
(***************************************************************************)
(* Model of the vital-statistics export script                             *)
(* packages/metrics/src/scripts/VSExportGenerator.ts and of seedUsers of   *)
(* packages/data-seeder/src/users.ts.                                      *)
(*                                                                         *)
(* A JavaScript Date is modelled by its day number counted from            *)
(* 2022-01-01 (the script only ever uses whole days, evaluated in      *)
(* UTC); a formatted 'yyyy-MM-dd' string is the record [y, m, d].          *)
(* A document is a record whose optional fields may be absent from its     *)
(* DOMAIN; a reference 'Patient/p1' is the record                          *)
(* [type |-> "Patient", id |-> "p1"].                                      *)
(***************************************************************************)
EXTENDS Integers, Sequences, FiniteSets, TLC

VARIABLES
    pc,            \* position of startScript
    argv,          \* process.argv[2], process.argv[3] as [s |-> ymd, e |-> ymd]
    storeSize,     \* Composition documents the store still has to hand out
    storeUp,       \* the store is reachable (client.connect() succeeds)
    startDate,     \* let startDate (day number)
    endDate,       \* const endDate (day number)
    totalMonths,   \* const totalMonths
    month,         \* loop variable of startScript
    windows,       \* (formatedStartDate, formatedEndDate) of every window begun
    count,         \* totalCompositionCount of the open cursor
    processed,     \* processedDatacount of the open cursor
    birthFile,     \* records appended to Birth_Report.csv
    deathFile,     \* records appended to Death_Report.csv
    caught,        \* times the catch block ran for the open cursor
    last,          \* what the latest iteration of the cursor loop did
    rawUsers,      \* seedUsers: the user list getUseres() returned
    userTask,      \* seedUsers: position of the async callback of each user
    existing,      \* seedUsers: usernames the gateway has a user for
    sent           \* seedUsers: createOrUpdateUser requests sent, in order

\* the variables of the export script and those of seedUsers
exportVars == <<pc, argv, storeSize, storeUp, startDate, endDate, totalMonths, month,
                windows, count, processed, birthFile, deathFile, caught, last>>

seedVars == <<rawUsers, userTask, existing, sent>>

vars == <<exportVars, seedVars>>

-----------------------------------------------------------------------------
(* Bounds *)

\* number of days after 2022-01-01 from which a start date is drawn
MaxStartDay == 100
\* an end date lies at most this many days after the start date
MaxSpan == 100
\* an end date lies at most this many days before the start date
MaxBack == 35
\* Composition documents in the store
MaxRecords == 2

-----------------------------------------------------------------------------
(* Dates: new Date(), date-fns *)

\* the calendar date of day number 0
Epoch == [y |-> 2022, m |-> 1, d |-> 1]

IsLeapYear(y) == (y % 4 = 0 /\ y % 100 # 0) \/ y % 400 = 0

DaysInYear(y) == IF IsLeapYear(y) THEN 366 ELSE 365

MonthLength(y, m) ==
    IF m = 2 THEN (IF IsLeapYear(y) THEN 29 ELSE 28)
    ELSE IF m \in {4, 6, 9, 11} THEN 30 ELSE 31

RECURSIVE DaysBeforeYear(_)
DaysBeforeYear(y) ==
    IF y <= Epoch.y THEN 0 ELSE DaysBeforeYear(y - 1) + DaysInYear(y - 1)

RECURSIVE DaysBeforeMonth(_, _)
DaysBeforeMonth(y, m) ==
    IF m <= 1 THEN 0 ELSE DaysBeforeMonth(y, m - 1) + MonthLength(y, m - 1)

\* the day number of a calendar date
ParseDate(ymd) == DaysBeforeYear(ymd.y) + DaysBeforeMonth(ymd.y, ymd.m) + (ymd.d - 1)

\* the time value of an Invalid Date and the number NaN: no day number and no
\* month count of the model reaches it
NaN == -(2 ^ 20)

\* the date strings new Date() parses: a month 01..12 and a day 01..31 (a day
\* past the end of the month rolls over into the next month)
WellFormed(ymd) == ymd.m \in 1 .. 12 /\ ymd.d \in 1 .. 31

\* new Date(process.argv[i])
NewDate(ymd) == IF WellFormed(ymd) THEN ParseDate(ymd) ELSE NaN

RECURSIVE CivilFromYear(_, _)
CivilFromYear(n, y) ==
    IF n >= DaysInYear(y) THEN CivilFromYear(n - DaysInYear(y), y + 1)
    ELSE [y |-> y, rest |-> n]

RECURSIVE CivilFromMonth(_, _, _)
CivilFromMonth(n, y, m) ==
    IF n >= MonthLength(y, m) THEN CivilFromMonth(n - MonthLength(y, m), y, m + 1)
    ELSE [y |-> y, m |-> m, d |-> n + 1]

\* DateFNS.format(date, 'yyyy-MM-dd'): the calendar fields of a day number
FormatDate(n) ==
    LET yr == CivilFromYear(n, Epoch.y) IN CivilFromMonth(yr.rest, yr.y, 1)

getDaysInMonth(n) == LET c == FormatDate(n) IN MonthLength(c.y, c.m)

getDate(n) == FormatDate(n).d

addDays(n, k) == n + k

differenceInCalendarMonths(l, r) ==
    IF l = NaN \/ r = NaN THEN NaN
    ELSE LET cl == FormatDate(l)
             cr == FormatDate(r)
         IN (cl.y - cr.y) * 12 + (cl.m - cr.m)

\* NaN + 1 is NaN
PlusOne(n) == IF n = NaN THEN NaN ELSE n + 1

\* month < totalMonths: every comparison with NaN is false
LessThan(mo, total) == total # NaN /\ mo < total

\* `${DateFNS.format(d, 'yyyy-MM-dd')}T00:00:00.000Z`
DayStart(n) == [date |-> FormatDate(n), time |-> "T00:00:00.000Z"]

\* `${DateFNS.format(d, 'yyyy-MM-dd')}T23:59:59.000Z`
DayEnd(n) == [date |-> FormatDate(n), time |-> "T23:59:59.000Z"]

\* lastOneMonth without the final window's clamp to endDate
LastOneMonth_NoClamp(sd, ed, mo, total) ==
    addDays(sd, getDaysInMonth(sd) - getDate(sd))

\* lastOneMonth of the window that starts at day sd in iteration mo
LastOneMonth(sd, ed, mo, total) ==
    IF mo + 1 = total THEN ed
    ELSE addDays(sd, getDaysInMonth(sd) - getDate(sd))

\* totalMonths without the + 1
TotalMonths_NoPlusOne(sd, ed) == differenceInCalendarMonths(ed, sd)

\* DateFNS.differenceInCalendarMonths(endDate, startDate) + 1
TotalMonths(sd, ed) == PlusOne(differenceInCalendarMonths(ed, sd))

\* the two formatted dates handed to makeCompositionAndExportCSVReport
WindowOf(sd, ed, mo, total) ==
    [start |-> DayStart(sd), end |-> DayEnd(LastOneMonth(sd, ed, mo, total))]

-----------------------------------------------------------------------------
(* CSV writers *)

\* the birth column keys without the last two of the informant
BirthColumns_TwoShort ==
    << "childGen",
       "childDOB",
       "childOrd",
       "birthCity",
       "birthState",
       "birthDistrict",
       "healthCenter",
       "officeLocation",
       "birthPluralityOfPregnancy",
       "bodyWeightMeasured",
       "birthAttendantTitle",
       "presentAtBirthReg",
       "motherDOB",
       "motherMaritalStatus",
       "motherOccupation",
       "motherEducationalAttainment",
       "motherCity",
       "motherDistrict",
       "motherState",
       "fatherDOB",
       "fatherMaritalStatus",
       "fatherOccupation",
       "fatherEducationalAttainment",
       "fatherCity",
       "fatherDistrict",
       "fatherState",
       "informantDOB",
       "informantMaritalStatus",
       "informantOccupation",
       "informantEducationalAttainment",
       "informantCity",
       "informantDistrict" >>

\* header: [...] of createCSV in createBirthDeclarationCSVWriter
BirthColumns ==
    << "childGen",
       "childDOB",
       "childOrd",
       "birthCity",
       "birthState",
       "birthDistrict",
       "healthCenter",
       "officeLocation",
       "birthPluralityOfPregnancy",
       "bodyWeightMeasured",
       "birthAttendantTitle",
       "presentAtBirthReg",
       "motherDOB",
       "motherMaritalStatus",
       "motherOccupation",
       "motherEducationalAttainment",
       "motherCity",
       "motherDistrict",
       "motherState",
       "fatherDOB",
       "fatherMaritalStatus",
       "fatherOccupation",
       "fatherEducationalAttainment",
       "fatherCity",
       "fatherDistrict",
       "fatherState",
       "informantDOB",
       "informantMaritalStatus",
       "informantOccupation",
       "informantEducationalAttainment",
       "informantCity",
       "informantDistrict",
       "informantState",
       "informantRelationship" >>

\* birthCSVHeader[0]
BirthHeader ==
    [ childGen |-> "CHILD GENDER",
      childDOB |-> "CHILD DOB",
      childOrd |-> "CHILD ORDER",
      birthCity |-> "BIRTH CITY",
      birthState |-> "BIRTH STATE",
      birthDistrict |-> "BIRTH DISTRICT",
      healthCenter |-> "HEALTH CENTER",
      officeLocation |-> "OFFICE LOCATION",
      birthPluralityOfPregnancy |-> "PLURALITY OF PREGNANCY",
      bodyWeightMeasured |-> "BODY WEIGHT MEASURED",
      birthAttendantTitle |-> "ATTENDANT TITLE",
      presentAtBirthReg |-> "PRESENT AT REG",
      motherDOB |-> "MOTHER DOB",
      motherMaritalStatus |-> "MOTHER MARITAL STATUS",
      motherOccupation |-> "MOTHER OCCUPATION",
      motherEducationalAttainment |-> "MOTHER EDUCATION",
      motherCity |-> "MOTHER CITY",
      motherDistrict |-> "MOTHER DISTRICT",
      motherState |-> "MOTHER STATE",
      fatherDOB |-> "FATHER DOB",
      fatherMaritalStatus |-> "FATHER MARITAL STATUS",
      fatherOccupation |-> "FATHER OCCUPATION",
      fatherEducationalAttainment |-> "FATHER EDUCATION",
      fatherCity |-> "FATHER CITY",
      fatherDistrict |-> "FATHER DISTRICT",
      fatherState |-> "FATHER STATE",
      informantDOB |-> "INFORMANT DOB",
      informantMaritalStatus |-> "INFORMANT MARITAL STATUS",
      informantOccupation |-> "INFORMANT OCCUPATION",
      informantEducationalAttainment |-> "INFORMANT EDUCATION",
      informantCity |-> "INFORMANT CITY",
      informantDistrict |-> "INFORMANT DISTRICT",
      informantState |-> "INFORMANT STATE",
      informantRelationship |-> "INFORMANT RELATIONSHIP" ]

\* header: [...] of createCSV in createDeathDeclarationCSVWriter
DeathColumns ==
    << "deceasedGen",
       "deceasedDOB",
       "deceasedMaritalStatus",
       "deceasedDate",
       "deathCity",
       "deathState",
       "deathDistrict",
       "healthCenter",
       "officeLocation",
       "uncertifiedMannerOfDeath",
       "verbalAutopsyDescription",
       "causeOfDeathMethod",
       "causeOfDeathEstablished",
       "causeOfDeath",
       "numMaleDependentsOnDeceased",
       "numFemaleDependentsOnDeceased",
       "informantDOB",
       "informantMaritalStatus",
       "informantOccupation",
       "informantCity",
       "informantDistrict",
       "informantState",
       "informantRelationship" >>

\* deathCSVHeader[0]
DeathHeader ==
    [ deceasedGen |-> "DECEASED GENDER",
      deceasedDOB |-> "DECEASED DOB",
      deceasedMaritalStatus |-> "DECEASED MARITAL STATUS",
      deceasedDate |-> "DECEASED DATE",
      deathCity |-> "DEATH CITY",
      deathState |-> "DEATH STATE",
      deathDistrict |-> "DEATH DISTRICT",
      healthCenter |-> "HEALTH CENTER",
      officeLocation |-> "OFFICE LOCATION",
      uncertifiedMannerOfDeath |-> "UNCERTIFIED MANNER OF DEATH",
      verbalAutopsyDescription |-> "VERBAL AUTOPSY DESCRIPTION",
      causeOfDeathMethod |-> "CAUSE OF DEATH METHOD",
      causeOfDeathEstablished |-> "CAUSE OF DEATH ESTABLISHED",
      causeOfDeath |-> "CAUSE OF DEATH",
      numMaleDependentsOnDeceased |-> "NUM MALE DEPENDENTS ON DECEASED",
      numFemaleDependentsOnDeceased |-> "NUM FEMALE DEPENDENTS ON DECEASED",
      informantDOB |-> "INFORMANT DOB",
      informantMaritalStatus |-> "INFORMANT MARITAL STATUS",
      informantOccupation |-> "INFORMANT OCCUPATION",
      informantCity |-> "INFORMANT CITY",
      informantDistrict |-> "INFORMANT DISTRICT",
      informantState |-> "INFORMANT STATE",
      informantRelationship |-> "INFORMANT RELATIONSHIP" ]

\* the keys of birthCSVHeader[0] in the order they are written
BirthHeaderKeys ==
    << "childGen",
       "childDOB",
       "childOrd",
       "birthCity",
       "birthState",
       "birthDistrict",
       "healthCenter",
       "officeLocation",
       "birthPluralityOfPregnancy",
       "bodyWeightMeasured",
       "birthAttendantTitle",
       "presentAtBirthReg",
       "motherDOB",
       "motherMaritalStatus",
       "motherOccupation",
       "motherEducationalAttainment",
       "motherCity",
       "motherDistrict",
       "motherState",
       "fatherDOB",
       "fatherMaritalStatus",
       "fatherOccupation",
       "fatherEducationalAttainment",
       "fatherCity",
       "fatherDistrict",
       "fatherState",
       "informantDOB",
       "informantMaritalStatus",
       "informantOccupation",
       "informantEducationalAttainment",
       "informantCity",
       "informantDistrict",
       "informantState",
       "informantRelationship" >>

\* the keys of deathCSVHeader[0] in the order they are written
DeathHeaderKeys ==
    << "deceasedGen",
       "deceasedDOB",
       "deceasedMaritalStatus",
       "deceasedDate",
       "deathCity",
       "deathState",
       "deathDistrict",
       "healthCenter",
       "officeLocation",
       "uncertifiedMannerOfDeath",
       "verbalAutopsyDescription",
       "causeOfDeathMethod",
       "causeOfDeathEstablished",
       "causeOfDeath",
       "numMaleDependentsOnDeceased",
       "numFemaleDependentsOnDeceased",
       "informantDOB",
       "informantMaritalStatus",
       "informantOccupation",
       "informantCity",
       "informantDistrict",
       "informantState",
       "informantRelationship" >>

\* the keys of the birthRow literal in the order they are written
BirthRowKeys ==
    << "childGen",
       "childDOB",
       "childOrd",
       "birthCity",
       "birthState",
       "birthDistrict",
       "healthCenter",
       "officeLocation",
       "birthPluralityOfPregnancy",
       "bodyWeightMeasured",
       "birthAttendantTitle",
       "presentAtBirthReg",
       "motherDOB",
       "motherMaritalStatus",
       "motherOccupation",
       "motherEducationalAttainment",
       "motherCity",
       "motherDistrict",
       "motherState",
       "fatherDOB",
       "fatherMaritalStatus",
       "fatherOccupation",
       "fatherEducationalAttainment",
       "fatherCity",
       "fatherDistrict",
       "fatherState",
       "informantDOB",
       "informantMaritalStatus",
       "informantOccupation",
       "informantEducationalAttainment",
       "informantCity",
       "informantDistrict",
       "informantState",
       "informantRelationship" >>

\* the keys of the deathRow literal in the order they are written
DeathRowKeys ==
    << "deceasedGen",
       "deceasedDOB",
       "deceasedMaritalStatus",
       "deceasedDate",
       "deathCity",
       "deathState",
       "deathDistrict",
       "healthCenter",
       "officeLocation",
       "uncertifiedMannerOfDeath",
       "verbalAutopsyDescription",
       "causeOfDeathMethod",
       "causeOfDeathEstablished",
       "causeOfDeath",
       "numMaleDependentsOnDeceased",
       "numFemaleDependentsOnDeceased",
       "informantDOB",
       "informantMaritalStatus",
       "informantOccupation",
       "informantCity",
       "informantDistrict",
       "informantState",
       "informantRelationship" >>

-----------------------------------------------------------------------------
(* PIPELINE *)

\* the value undefined of an optional chain
Undefined == "<undefined>"

\* the result of find() or of an index into an empty array
NoDoc == [undefined |-> TRUE]

Has(r, f) == f \in DOMAIN r

\* r?.f
Get(r, f) == IF f \in DOMAIN r THEN r[f] ELSE Undefined

\* v ?? d
Coalesce(v, d) == IF v = Undefined THEN d ELSE v

\* a string used as a condition
Truthy(v) == v # Undefined /\ v # ""

\* String(v), `${v}` of a string or of undefined
ToText(v) == IF v = Undefined THEN "undefined" ELSE v

\* Number.prototype.toString on the quantities of the store
NumberToString(n) == << "1", "2", "3", "4" >>[n]

\* r with r[f] = v
Put(r, f, v) == (f :> v) @@ r

Range(q) == { q[i] : i \in 1 .. Len(q) }

\* array.find(({ id }) => id === wanted)
FindById(docs, wanted) ==
    LET hits == SelectSeq(docs, LAMBDA d : d.id = wanted)
    IN IF Len(hits) = 0 THEN NoDoc ELSE hits[1]

officeLocationExtURL == "http://opencrvs.org/specs/extension/regLastOffice"
patientOccupationExtURL == "http://opencrvs.org/specs/extension/patient-occupation"
patientEduAttainmentExtURL == "http://opencrvs.org/specs/extension/educational-attainment"

TITLE_MAP ==
    [ x \in { "Child details", "Deceased details", "Mother's details",
              "Father's details", "Informant's details" } |->
        CASE x = "Child details" -> "child"
          [] x = "Deceased details" -> "deceased"
          [] x = "Mother's details" -> "mother"
          [] x = "Father's details" -> "father"
          [] x = "Informant's details" -> "informant" ]

\* the property key TITLE_MAP[title] used on fullComposition
RoleOfTitle(title) ==
    IF title \in DOMAIN TITLE_MAP THEN TITLE_MAP[title] ELSE "undefined"

OBSERVATION_CODE ==
    [ CAUSE_OF_DEATH_METHOD |-> "cause-of-death-method",
      BIRTH_PLURALITY_OF_PREGNANCY |-> "57722-1",
      BODY_WEIGHT_MEASURED |-> "3141-9",
      BIRTH_ATTENDANT_TITLE |-> "73764-3",
      CAUSE_OF_DEATH |-> "ICD10",
      UNCERTIFIED_MANNER_OF_DEATH |-> "uncertified-manner-of-death",
      VERBAL_AUTOPSY_DESCRIPTION |-> "lay-reported-or-verbal-autopsy-description",
      CAUSE_OF_DEATH_ESTABLISHED |-> "cause-of-death-established",
      NUM_MALE_DEPENDENTS_ON_DECEASED |-> "num-male-dependents-on-deceased",
      NUM_FEMALE_DEPENDENTS_ON_DECEASED |-> "num-female-dependents-on-deceased",
      PRESENT_AT_BIRTH_REG |-> "present-at-birth-reg" ]

-----------------------------------------------------------------------------
(* The document store.  Arrays of a FHIR document are never empty when     *)
(* present; every optional element is present in some document and absent  *)
(* in another.                                                             *)

Ref(type, id) == [type |-> type, id |-> id]

LocationDocs ==
    << [id |-> "hf1", name |-> "Health Centre One", typeCode |-> "HEALTH_FACILITY",
        partOf |-> Ref("Location", "d1"),
        address |-> [district |-> "d2", state |-> "s2", city |-> "Facility Town"]],
       [id |-> "hf2", name |-> "Health Centre Two", typeCode |-> "HEALTH_FACILITY",
        partOf |-> Ref("Location", "gone")],
       [id |-> "hf3", typeCode |-> "HEALTH_FACILITY"],
       [id |-> "hf4", name |-> "Health Centre Four", typeCode |-> "HEALTH_FACILITY",
        partOf |-> Ref("Location", "d3")],
       [id |-> "d1", name |-> "District One", typeCode |-> "ADMIN_STRUCTURE",
        partOf |-> Ref("Location", "s1")],
       [id |-> "s1", name |-> "State One", typeCode |-> "ADMIN_STRUCTURE",
        partOf |-> Ref("Location", "0")],
       [id |-> "d2", name |-> "District Two", typeCode |-> "ADMIN_STRUCTURE",
        partOf |-> Ref("Location", "s2")],
       [id |-> "s2", name |-> "State Two", typeCode |-> "ADMIN_STRUCTURE",
        partOf |-> Ref("Location", "0")],
       [id |-> "d3", name |-> "District Three", typeCode |-> "ADMIN_STRUCTURE"],
       [id |-> "home1", name |-> "Private Home", typeCode |-> "PRIVATE_HOME",
        partOf |-> Ref("Location", "d1"),
        address |-> [district |-> "d2", state |-> "s2", city |-> "Home Town"]],
       [id |-> "home2", partOf |-> Ref("Location", "d1"),
        address |-> [district |-> "gone"]],
       [id |-> "office1", name |-> "Office One", typeCode |-> "CRVS_OFFICE",
        partOf |-> Ref("Location", "d1")] >>

EncounterDocs ==
    << [id |-> "e1", location |-> Ref("Location", "hf1")],
       [id |-> "e2", location |-> Ref("Location", "home1")],
       [id |-> "e3", location |-> Ref("Location", "hf2")],
       [id |-> "e4", location |-> Ref("Location", "home2")],
       [id |-> "e5", location |-> Ref("Location", "hf3")],
       [id |-> "e6", location |-> Ref("Location", "hf4")],
       [id |-> "e7", location |-> Ref("Location", "gone")],
       [id |-> "e8"],
       [id |-> "o1", location |-> Ref("Location", "hf1")],
       [id |-> "o2", location |-> Ref("Location", "hf1")],
       [id |-> "o3", location |-> Ref("Location", "hf1")],
       [id |-> "o4", location |-> Ref("Location", "hf1")],
       [id |-> "o5", location |-> Ref("Location", "hf1")] >>

PatientDocs ==
    << [id |-> "p1", gender |-> "male", birthDate |-> "2022-02-01",
        multipleBirthInteger |-> 2,
        address |-> << [city |-> "Child Town", district |-> "d1", state |-> "s1"] >>],
       [id |-> "p2", gender |-> "female", birthDate |-> "1995-05-05",
        maritalStatus |-> [text |-> "MARRIED"],
        extension |-> << [url |-> patientOccupationExtURL, valueString |-> "Farmer"],
                         [url |-> patientEduAttainmentExtURL, valueString |-> "PRIMARY"] >>,
        address |-> << [city |-> "Mother Town", district |-> "gone", state |-> "s1"] >>],
       [id |-> "p3", gender |-> "male", birthDate |-> "1950-01-01",
        deceasedDateTime |-> "2022-01-05", maritalStatus |-> [coding |-> "M"],
        address |-> << [city |-> "Last Town", district |-> "d2", state |-> "s2"] >>],
       [id |-> "p4", birthDate |-> "1990-09-09",
        extension |-> << [url |-> patientOccupationExtURL] >>,
        address |-> << [district |-> "d3"] >>],
       [id |-> "p5"] >>

RelatedPersonDocs ==
    << [id |-> "rp1", patient |-> [reference |-> Ref("Patient", "p4")],
        relationship |-> [coding |-> << [code |-> "MOTHER"] >>]],
       [id |-> "rp2", relationship |-> [coding |-> << [code |-> "FATHER"] >>]],
       [id |-> "rp3", patient |-> [reference |-> Ref("Patient", "gone")]],
       [id |-> "rp4", patient |-> [reference |-> Ref("Patient", "p2")]] >>

Coded(code) == [coding |-> << [code |-> code] >>]

\* Observation documents, in the result order of the store
ObservationDocs ==
    << \* o1: a birth with every birth observation valued
       [context |-> Ref("Encounter", "o1"), code |-> Coded("57722-1"),
        valueQuantity |-> [value |-> 2]],
       [context |-> Ref("Encounter", "o1"), code |-> Coded("3141-9"),
        valueQuantity |-> [value |-> 3, unit |-> "kg"]],
       [context |-> Ref("Encounter", "o1"), code |-> Coded("73764-3"),
        valueString |-> "PHYSICIAN"],
       [context |-> Ref("Encounter", "o1"), code |-> Coded("present-at-birth-reg"),
        valueString |-> "BOTH_PARENTS"],
       \* o2: a death with every death observation valued
       [context |-> Ref("Encounter", "o2"), code |-> Coded("cause-of-death-method"),
        valueCodeableConcept |-> Coded("PHYSICIAN")],
       [context |-> Ref("Encounter", "o2"), code |-> Coded("uncertified-manner-of-death"),
        valueCodeableConcept |-> Coded("NATURAL_CAUSES")],
       [context |-> Ref("Encounter", "o2"),
        code |-> Coded("lay-reported-or-verbal-autopsy-description"),
        valueString |-> "Old age"],
       [context |-> Ref("Encounter", "o2"), code |-> Coded("cause-of-death-established"),
        valueCodeableConcept |-> Coded("true")],
       [context |-> Ref("Encounter", "o2"), code |-> Coded("ICD10"),
        valueCodeableConcept |-> Coded("age")],
       [context |-> Ref("Encounter", "o2"),
        code |-> Coded("num-male-dependents-on-deceased"), valueString |-> "1"],
       [context |-> Ref("Encounter", "o2"),
        code |-> Coded("num-female-dependents-on-deceased"), valueString |-> "4"],
       \* o3: every configured code, none with a value of the expected shape
       [context |-> Ref("Encounter", "o3"), code |-> Coded("cause-of-death-method")],
       [context |-> Ref("Encounter", "o3"), code |-> Coded("57722-1"),
        valueQuantity |-> [unit |-> "x"]],
       [context |-> Ref("Encounter", "o3"), code |-> Coded("3141-9")],
       [context |-> Ref("Encounter", "o3"), code |-> Coded("73764-3")],
       [context |-> Ref("Encounter", "o3"), code |-> Coded("uncertified-manner-of-death"),
        valueCodeableConcept |-> [text |-> "natural"]],
       [context |-> Ref("Encounter", "o3"),
        code |-> Coded("lay-reported-or-verbal-autopsy-description")],
       [context |-> Ref("Encounter", "o3"), code |-> Coded("cause-of-death-established"),
        valueString |-> "true"],
       [context |-> Ref("Encounter", "o3"), code |-> Coded("ICD10")],
       [context |-> Ref("Encounter", "o3"),
        code |-> Coded("num-male-dependents-on-deceased")],
       [context |-> Ref("Encounter", "o3"),
        code |-> Coded("num-female-dependents-on-deceased")],
       [context |-> Ref("Encounter", "o3"), code |-> Coded("present-at-birth-reg")],
       \* o4: two observations of one code, the valued one first
       [context |-> Ref("Encounter", "o4"), code |-> Coded("cause-of-death-established"),
        valueCodeableConcept |-> Coded("true")],
       [context |-> Ref("Encounter", "o4"), code |-> Coded("cause-of-death-established")],
       [context |-> Ref("Encounter", "o4"), code |-> Coded("73764-3"),
        valueString |-> "NURSE"],
       [context |-> Ref("Encounter", "o4"), code |-> Coded("73764-3"),
        valueString |-> "MIDWIFE"],
       \* o5: two observations of one code, the valued one last; no coding
       [context |-> Ref("Encounter", "o5"), code |-> Coded("cause-of-death-established")],
       [context |-> Ref("Encounter", "o5"), code |-> Coded("cause-of-death-established"),
        valueCodeableConcept |-> Coded("false")],
       [context |-> Ref("Encounter", "o5"), code |-> [text |-> "uncoded"],
        valueString |-> "ignored"],
       [context |-> Ref("Encounter", "o5"), code |-> Coded("3141-9"),
        valueQuantity |-> [value |-> 4]] >>

RegLastOffice(id) ==
    << [url |-> officeLocationExtURL,
        valueReference |-> [reference |-> Ref("Location", id)]] >>

\* Task documents; a Composition has at most one
TaskDocs ==
    << [focus |-> Ref("Composition", "registered"),
        businessStatus |-> Coded("REGISTERED"), extension |-> RegLastOffice("office1")],
       [focus |-> Ref("Composition", "certified"),
        businessStatus |-> Coded("CERTIFIED"),
        extension |-> << [url |-> "http://opencrvs.org/specs/extension/regLastUser",
                          valueReference |-> [reference |-> Ref("Practitioner", "u1")]] >>],
       [focus |-> Ref("Composition", "declared"),
        businessStatus |-> Coded("DECLARED"), extension |-> RegLastOffice("office1")],
       [focus |-> Ref("Composition", "rejected"),
        businessStatus |-> Coded("REJECTED")],
       [focus |-> Ref("Composition", "nocode"),
        businessStatus |-> [text |-> "in progress"], extension |-> RegLastOffice("office1")],
       [focus |-> Ref("Composition", "nostatus"), extension |-> RegLastOffice("gone")] >>

Collection(name) ==
    CASE name = "Encounter" -> EncounterDocs
      [] name = "Location" -> LocationDocs
      [] name = "Patient" -> PatientDocs
      [] name = "RelatedPerson" -> RelatedPersonDocs


-----------------------------------------------------------------------------
(* Store queries *)

\* db.collection(name).find({ id: { $in: ids } }) or .find()
getCollectionDocuments(collectionName, ids) ==
    IF Len(ids) > 0
    THEN SelectSeq(Collection(collectionName), LAMBDA d : d.id \in Range(ids))
    ELSE Collection(collectionName)

\* find({ 'context.reference': encounterId })
getObservationDocByEncounterId(reference) ==
    SelectSeq(ObservationDocs, LAMBDA d : d.context = reference)

\* find({ 'focus.reference': compositionId })
getTaskDocByCompositionId(reference) ==
    SelectSeq(TaskDocs, LAMBDA d : d.focus = reference)

\* one call of getCollectionDocuments, as it is logged in last.fetched
Fetch(collectionName, ids) == [collection |-> collectionName, all |-> Len(ids) = 0]

\* reference.replace('<type>/', '')
StripPrefix(ref, type) ==
    IF ref.type = type THEN ref.id ELSE ref.type \o "/" \o ref.id

\* typeof section.entry?.[0].reference === 'string' && it startsWith('<type>/')
RefersTo(section, type) ==
    /\ Has(section, "entry")
    /\ Has(section.entry[1], "reference")
    /\ section.entry[1].reference.type = type

-----------------------------------------------------------------------------
(* Patients *)

getValueFromExt(doc, extURL) ==
    IF ~Has(doc, "extension") THEN ""
    ELSE LET docExt == SelectSeq(doc.extension, LAMBDA e : e.url = extURL)
         IN IF Len(docExt) = 0 THEN "" ELSE Get(docExt[1], "valueString")

\* patient.address?.[0].<field> ?? ''
AddressField(patient, field) ==
    IF Has(patient, "address") THEN Coalesce(Get(patient.address[1], field), "") ELSE ""

makePatientObject(patient) ==
    [ gender |-> Coalesce(Get(patient, "gender"), ""),
      birthDate |-> Coalesce(Get(patient, "birthDate"), ""),
      deceasedDate |-> Coalesce(Get(patient, "deceasedDateTime"), ""),
      maritalStatus |->
          IF Has(patient, "maritalStatus")
          THEN Coalesce(Get(patient.maritalStatus, "text"), "") ELSE "",
      multipleBirth |->
          IF Has(patient, "multipleBirthInteger") THEN patient.multipleBirthInteger ELSE 0,
      occupation |-> Coalesce(getValueFromExt(patient, patientOccupationExtURL), ""),
      educational_attainment |->
          Coalesce(getValueFromExt(patient, patientEduAttainmentExtURL), ""),
      city |-> AddressField(patient, "city"),
      district |-> AddressField(patient, "district"),
      state |-> AddressField(patient, "state") ]

\* locations.find(({ id }) => id === wanted)?.name ?? ''
LocationName(locations, wanted) ==
    Coalesce(Get(FindById(locations, wanted), "name"), "")

\* address[0].<field> replaced by the name of the Location it names
SubstituteName(address, field, locations) ==
    IF Truthy(Get(address, field))
    THEN Put(address, field, LocationName(locations, address[field]))
    ELSE address

setPatientsAddress(patients, locations) ==
    [ i \in 1 .. Len(patients) |->
        IF Has(patients[i], "address")
        THEN Put(patients[i], "address",
                 << SubstituteName(SubstituteName(patients[i].address[1], "district", locations),
                                   "state", locations) >>
                 \o SubSeq(patients[i].address, 2, Len(patients[i].address)))
        ELSE patients[i] ]

\* composition.section?.forEach of setPatientsDetailsInComposition, from section i
RECURSIVE FilePatients(_, _, _, _)
FilePatients(sections, i, patients, fullComposition) ==
    IF i > Len(sections) THEN fullComposition
    ELSE LET patient ==
                 IF RefersTo(sections[i], "Patient")
                 THEN FindById(patients, StripPrefix(sections[i].entry[1].reference, "Patient"))
                 ELSE NoDoc
         IN FilePatients(sections, i + 1, patients,
                IF patient # NoDoc /\ Truthy(Get(sections[i], "title"))
                THEN Put(fullComposition, RoleOfTitle(sections[i].title),
                         makePatientObject(patient))
                ELSE fullComposition)

\* A step of the resolution returns [err, fc, fetched]: whether it threw, the
\* fullComposition it leaves, the getCollectionDocuments calls it made.
setPatientsDetailsInComposition(composition, fullComposition, locations, fault) ==
    IF ~Has(composition, "section")
    THEN [err |-> TRUE, fc |-> fullComposition, fetched |-> {}]
    ELSE LET patientList == SelectSeq(composition.section, LAMBDA x : RefersTo(x, "Patient"))
             patientIds == [ i \in 1 .. Len(patientList) |->
                               StripPrefix(patientList[i].entry[1].reference, "Patient") ]
             calls == { Fetch("Patient", patientIds) }
         IN IF fault = "Patient"
            THEN [err |-> TRUE, fc |-> fullComposition, fetched |-> calls]
            ELSE [err |-> FALSE,
                  fc |-> FilePatients(composition.section, 1,
                             setPatientsAddress(getCollectionDocuments("Patient", patientIds),
                                                locations),
                             fullComposition),
                  fetched |-> calls]

-----------------------------------------------------------------------------
(* Locations *)

\* String(doc?.partOf?.reference?.replace('Location/', ''))
PartOfId(doc) ==
    IF Has(doc, "partOf") THEN StripPrefix(doc.partOf, "Location") ELSE "undefined"

\* locationDoc.address?.<field>
LocationAddress(doc, field) ==
    IF Has(doc, "address") THEN Get(doc.address, field) ELSE Undefined

\* the else branch taken for every Location
ResolveHierarchy_ByAddress(locationDoc, locations, fullComposition) ==
    Put(Put(fullComposition,
        "eventDistrict",
        LocationName(locations, LocationAddress(locationDoc, "district"))),
        "eventState",
        LocationName(locations, LocationAddress(locationDoc, "state")))

\* the if (isLocationHealthFacility) ... else ... of setLocationInComposition
ResolveHierarchy(locationDoc, locations, fullComposition) ==
    IF Get(locationDoc, "typeCode") = "HEALTH_FACILITY"
    THEN LET districtLocationDoc == FindById(locations, PartOfId(locationDoc))
             stateLocationDoc == FindById(locations, PartOfId(districtLocationDoc))
         IN Put(Put(Put(fullComposition,
                "healthCenter", Coalesce(Get(locationDoc, "name"), "")),
                "eventDistrict", Coalesce(Get(districtLocationDoc, "name"), "")),
                "eventState", Coalesce(Get(stateLocationDoc, "name"), ""))
    ELSE Put(Put(fullComposition,
             "eventDistrict",
             LocationName(locations, LocationAddress(locationDoc, "district"))),
             "eventState",
             LocationName(locations, LocationAddress(locationDoc, "state")))

\* task.extension?.find(url === officeLocationExtURL)?.valueReference?.reference
OfficeLocationId(task) ==
    IF ~Has(task, "extension") THEN Undefined
    ELSE LET ext == SelectSeq(task.extension, LAMBDA e : e.url = officeLocationExtURL)
         IN IF Len(ext) = 0 \/ ~Has(ext[1], "valueReference")
                \/ ~Has(ext[1].valueReference, "reference")
            THEN Undefined
            ELSE StripPrefix(ext[1].valueReference.reference, "Location")

setLocationInComposition(composition, fullComposition, locations, task, fault) ==
    LET encounter == SelectSeq(composition.section, LAMBDA x : RefersTo(x, "Encounter"))
        encounterId ==
            IF Len(encounter) = 0 THEN ""
            ELSE StripPrefix(encounter[1].entry[1].reference, "Encounter")
        calls == { Fetch("Encounter", << encounterId >>) }
        encounterDoc == getCollectionDocuments("Encounter", << encounterId >>)
        locationId ==
            IF Len(encounterDoc) > 0 /\ Has(encounterDoc[1], "location")
            THEN StripPrefix(encounterDoc[1].location, "Location") ELSE Undefined
        locationDoc == FindById(locations, locationId)
    IN IF fault = "Encounter" \/ Len(encounterDoc) = 0 \/ locationDoc = NoDoc
       THEN [err |-> TRUE, fc |-> fullComposition, fetched |-> calls]
       ELSE [err |-> FALSE,
             fc |-> Put(Put(ResolveHierarchy(locationDoc, locations, fullComposition),
                        "eventCity", Coalesce(LocationAddress(locationDoc, "city"), "")),
                        "officeLocation", LocationName(locations, OfficeLocationId(task))),
             fetched |-> calls]

-----------------------------------------------------------------------------
(* Observations *)

\* observation.code.coding?.[0].code === code
findCodeInObservation(observation, code) ==
    /\ Has(observation.code, "coding")
    /\ Get(observation.code.coding[1], "code") = code

\* the eleven if statements of the forEach, in their order
ObservationFields ==
    << [field |-> "causeOfDeathMethod", code |-> OBSERVATION_CODE.CAUSE_OF_DEATH_METHOD,
        shape |-> "coded"],
       [field |-> "birthPluralityOfPregnancy",
        code |-> OBSERVATION_CODE.BIRTH_PLURALITY_OF_PREGNANCY, shape |-> "quantity"],
       [field |-> "bodyWeightMeasured", code |-> OBSERVATION_CODE.BODY_WEIGHT_MEASURED,
        shape |-> "quantityUnit"],
       [field |-> "birthAttendantTitle", code |-> OBSERVATION_CODE.BIRTH_ATTENDANT_TITLE,
        shape |-> "string"],
       [field |-> "uncertifiedMannerOfDeath",
        code |-> OBSERVATION_CODE.UNCERTIFIED_MANNER_OF_DEATH, shape |-> "coded"],
       [field |-> "verbalAutopsyDescription",
        code |-> OBSERVATION_CODE.VERBAL_AUTOPSY_DESCRIPTION, shape |-> "string"],
       [field |-> "causeOfDeathEstablished",
        code |-> OBSERVATION_CODE.CAUSE_OF_DEATH_ESTABLISHED, shape |-> "coded"],
       [field |-> "causeOfDeath", code |-> OBSERVATION_CODE.CAUSE_OF_DEATH,
        shape |-> "coded"],
       [field |-> "numMaleDependentsOnDeceased",
        code |-> OBSERVATION_CODE.NUM_MALE_DEPENDENTS_ON_DECEASED, shape |-> "string"],
       [field |-> "numFemaleDependentsOnDeceased",
        code |-> OBSERVATION_CODE.NUM_FEMALE_DEPENDENTS_ON_DECEASED, shape |-> "string"],
       [field |-> "presentAtBirthReg", code |-> OBSERVATION_CODE.PRESENT_AT_BIRTH_REG,
        shape |-> "string"] >>

\* `${q?.value}` and q?.value?.toString()
QuantityValue(observation) ==
    IF Has(observation, "valueQuantity") /\ Has(observation.valueQuantity, "value")
    THEN NumberToString(observation.valueQuantity.value) ELSE Undefined

QuantityUnit(observation) ==
    IF Has(observation, "valueQuantity") THEN Get(observation.valueQuantity, "unit")
    ELSE Undefined

\* the right-hand side of the assignment of one if statement
ObservationValue(observation, shape) ==
    CASE shape = "coded" ->
           IF Has(observation, "valueCodeableConcept")
              /\ Has(observation.valueCodeableConcept, "coding")
           THEN Coalesce(Get(observation.valueCodeableConcept.coding[1], "code"), "")
           ELSE ""
      [] shape = "quantity" -> Coalesce(QuantityValue(observation), "")
      [] shape = "quantityUnit" ->
           ToText(QuantityValue(observation)) \o " " \o ToText(QuantityUnit(observation))
      [] shape = "string" -> Coalesce(Get(observation, "valueString"), "")

\* the body of the forEach for one observation. The eleven codes are pairwise
\* distinct and findCodeInObservation compares each with the one code of the
\* observation, so at most one of the if statements is taken.
ApplyFields(observationObj, observation) ==
    LET taken == SelectSeq(ObservationFields,
                           LAMBDA f : findCodeInObservation(observation, f.code))
    IN IF Len(taken) = 0 THEN observationObj
       ELSE Put(observationObj, taken[1].field,
                ObservationValue(observation, taken[1].shape))

\* observations.forEach(...), from observation i on
RECURSIVE ExtractObservations(_, _, _)
ExtractObservations(observations, i, observationObj) ==
    IF i > Len(observations) THEN observationObj
    ELSE ExtractObservations(observations, i + 1,
                             ApplyFields(observationObj, observations[i]))

EmptyObservationObj ==
    [ causeOfDeathMethod |-> "", birthPluralityOfPregnancy |-> "",
      bodyWeightMeasured |-> "", birthAttendantTitle |-> "",
      uncertifiedMannerOfDeath |-> "", verbalAutopsyDescription |-> "",
      causeOfDeathEstablished |-> "", causeOfDeath |-> "",
      numMaleDependentsOnDeceased |-> "", numFemaleDependentsOnDeceased |-> "",
      presentAtBirthReg |-> "" ]

setObservationDetailsInComposition(composition, fullComposition, fault) ==
    LET encounter == SelectSeq(composition.section, LAMBDA x : RefersTo(x, "Encounter"))
        reference ==
            IF Len(encounter) = 0 THEN Ref("undefined", "")
            ELSE encounter[1].entry[1].reference
        calls == { [collection |-> "Observation", all |-> FALSE] }
    IN IF fault = "Observation"
       THEN [err |-> TRUE, fc |-> fullComposition, fetched |-> calls]
       ELSE [err |-> FALSE,
             fc |-> Put(fullComposition, "observations",
                        ExtractObservations(getObservationDocByEncounterId(reference), 1,
                                            EmptyObservationObj)),
             fetched |-> calls]

-----------------------------------------------------------------------------
(* Informant *)

\* relatedPerson[0].relationship?.coding?.[0].code ?? ''
RelationshipCode(relatedPerson) ==
    IF Has(relatedPerson, "relationship") /\ Has(relatedPerson.relationship, "coding")
    THEN Coalesce(Get(relatedPerson.relationship.coding[1], "code"), "") ELSE ""

setInformantDetailsInComposition(composition, fullComposition, locations, fault) ==
    LET informant == SelectSeq(composition.section, LAMBDA x : RefersTo(x, "RelatedPerson"))
        informantId ==
            IF Len(informant) = 0 THEN ""
            ELSE StripPrefix(informant[1].entry[1].reference, "RelatedPerson")
        first == { Fetch("RelatedPerson", << informantId >>) }
        relatedPerson == getCollectionDocuments("RelatedPerson", << informantId >>)
    IN IF fault = "RelatedPerson" \/ Len(relatedPerson) = 0
       THEN [err |-> TRUE, fc |-> fullComposition, fetched |-> first]
       ELSE IF ~Has(relatedPerson[1], "patient")
       THEN [err |-> FALSE, fc |-> fullComposition, fetched |-> first]
       ELSE LET patientId ==
                    IF Has(relatedPerson[1].patient, "reference")
                    THEN StripPrefix(relatedPerson[1].patient.reference, "Patient")
                    ELSE "undefined"
                calls == first \cup { Fetch("Patient", << patientId >>) }
                patient == setPatientsAddress(
                               getCollectionDocuments("Patient", << patientId >>), locations)
            IN IF fault = "InformantPatient" \/ Len(patient) = 0
               THEN [err |-> TRUE, fc |-> fullComposition, fetched |-> calls]
               ELSE [err |-> FALSE,
                     fc |-> Put(fullComposition, "informant",
                                Put(makePatientObject(patient[1]), "relationship",
                                    RelationshipCode(relatedPerson[1]))),
                     fetched |-> calls]

-----------------------------------------------------------------------------
(* Rows *)

\* fullComposition.<key> ?? ''
Top(fullComposition, key) == Coalesce(Get(fullComposition, key), "")

\* fullComposition.<role>?.<field> without the ?? ''
Of_NoDefault(fullComposition, role, field) ==
    IF Has(fullComposition, role) THEN Get(fullComposition[role], field)
    ELSE Undefined

\* fullComposition.<role>?.<field> ?? ''
Of(fullComposition, role, field) ==
    IF Has(fullComposition, role) THEN Coalesce(Get(fullComposition[role], field), "")
    ELSE ""

\* fullComposition.child?.multipleBirth ?? 0
ChildOrd(fullComposition) ==
    IF Has(fullComposition, "child") THEN fullComposition.child.multipleBirth ELSE 0

\* the birthRow object after all its assignments
BirthRow(fc) ==
    [ childGen |-> Of(fc, "child", "gender"),
      childDOB |-> Of(fc, "child", "birthDate"),
      childOrd |-> ChildOrd(fc),
      birthCity |-> Top(fc, "eventCity"),
      birthState |-> Top(fc, "eventState"),
      birthDistrict |-> Top(fc, "eventDistrict"),
      healthCenter |-> Top(fc, "healthCenter"),
      officeLocation |-> Top(fc, "officeLocation"),
      birthPluralityOfPregnancy |-> Of(fc, "observations", "birthPluralityOfPregnancy"),
      bodyWeightMeasured |-> Of(fc, "observations", "bodyWeightMeasured"),
      birthAttendantTitle |-> Of(fc, "observations", "birthAttendantTitle"),
      presentAtBirthReg |-> Of(fc, "observations", "presentAtBirthReg"),
      motherDOB |-> Of(fc, "mother", "birthDate"),
      motherMaritalStatus |-> Of(fc, "mother", "maritalStatus"),
      motherOccupation |-> Of(fc, "mother", "occupation"),
      motherEducationalAttainment |-> Of(fc, "mother", "educational_attainment"),
      motherCity |-> Of(fc, "mother", "city"),
      motherDistrict |-> Of(fc, "mother", "district"),
      motherState |-> Of(fc, "mother", "state"),
      fatherDOB |-> Of(fc, "father", "birthDate"),
      fatherMaritalStatus |-> Of(fc, "father", "maritalStatus"),
      fatherOccupation |-> Of(fc, "father", "occupation"),
      fatherEducationalAttainment |-> Of(fc, "father", "educational_attainment"),
      fatherCity |-> Of(fc, "father", "city"),
      fatherDistrict |-> Of(fc, "father", "district"),
      fatherState |-> Of(fc, "father", "state"),
      informantDOB |-> Of(fc, "informant", "birthDate"),
      informantMaritalStatus |-> Of(fc, "informant", "maritalStatus"),
      informantOccupation |-> Of(fc, "informant", "occupation"),
      informantEducationalAttainment |-> Of(fc, "informant", "educational_attainment"),
      informantCity |-> Of(fc, "informant", "city"),
      informantDistrict |-> Of(fc, "informant", "district"),
      informantState |-> Of(fc, "informant", "state"),
      informantRelationship |-> Of(fc, "informant", "relationship") ]

\* deathRow.causeOfDeathEstablished
EstablishedLabel(fc) ==
    IF Has(fc, "observations") /\ Truthy(fc.observations.causeOfDeathEstablished)
    THEN "Yes" ELSE "No"

\* the deathRow object with the place of death taken from the event location
DeathRow_EventLocation(fc) ==
    [ deceasedGen |-> Of(fc, "deceased", "gender"),
      deceasedDOB |-> Of(fc, "deceased", "birthDate"),
      deceasedMaritalStatus |-> Of(fc, "deceased", "maritalStatus"),
      deceasedDate |-> Of(fc, "deceased", "deceasedDate"),
      deathCity |-> Top(fc, "eventCity"),
      deathState |-> Top(fc, "eventState"),
      deathDistrict |-> Top(fc, "eventDistrict"),
      healthCenter |-> Top(fc, "healthCenter"),
      officeLocation |-> Top(fc, "officeLocation"),
      uncertifiedMannerOfDeath |-> Of(fc, "observations", "uncertifiedMannerOfDeath"),
      verbalAutopsyDescription |-> Of(fc, "observations", "verbalAutopsyDescription"),
      causeOfDeathMethod |-> Of(fc, "observations", "causeOfDeathMethod"),
      causeOfDeathEstablished |-> EstablishedLabel(fc),
      causeOfDeath |-> Of(fc, "observations", "causeOfDeath"),
      numMaleDependentsOnDeceased |-> Of(fc, "observations", "numMaleDependentsOnDeceased"),
      numFemaleDependentsOnDeceased |->
          Of(fc, "observations", "numFemaleDependentsOnDeceased"),
      informantDOB |-> Of(fc, "informant", "birthDate"),
      informantMaritalStatus |-> Of(fc, "informant", "maritalStatus"),
      informantOccupation |-> Of(fc, "informant", "occupation"),
      informantCity |-> Of(fc, "informant", "city"),
      informantDistrict |-> Of(fc, "informant", "district"),
      informantState |-> Of(fc, "informant", "state"),
      informantRelationship |-> Of(fc, "informant", "relationship") ]

\* the deathRow object after all its assignments
DeathRow(fc) ==
    [ deceasedGen |-> Of(fc, "deceased", "gender"),
      deceasedDOB |-> Of(fc, "deceased", "birthDate"),
      deceasedMaritalStatus |-> Of(fc, "deceased", "maritalStatus"),
      deceasedDate |-> Of(fc, "deceased", "deceasedDate"),
      deathCity |-> Of(fc, "deceased", "city"),
      deathState |-> Of(fc, "deceased", "state"),
      deathDistrict |-> Of(fc, "deceased", "district"),
      healthCenter |-> Top(fc, "healthCenter"),
      officeLocation |-> Top(fc, "officeLocation"),
      uncertifiedMannerOfDeath |-> Of(fc, "observations", "uncertifiedMannerOfDeath"),
      verbalAutopsyDescription |-> Of(fc, "observations", "verbalAutopsyDescription"),
      causeOfDeathMethod |-> Of(fc, "observations", "causeOfDeathMethod"),
      causeOfDeathEstablished |-> EstablishedLabel(fc),
      causeOfDeath |-> Of(fc, "observations", "causeOfDeath"),
      numMaleDependentsOnDeceased |-> Of(fc, "observations", "numMaleDependentsOnDeceased"),
      numFemaleDependentsOnDeceased |->
          Of(fc, "observations", "numFemaleDependentsOnDeceased"),
      informantDOB |-> Of(fc, "informant", "birthDate"),
      informantMaritalStatus |-> Of(fc, "informant", "maritalStatus"),
      informantOccupation |-> Of(fc, "informant", "occupation"),
      informantCity |-> Of(fc, "informant", "city"),
      informantDistrict |-> Of(fc, "informant", "district"),
      informantState |-> Of(fc, "informant", "state"),
      informantRelationship |-> Of(fc, "informant", "relationship") ]

-----------------------------------------------------------------------------
(* makeCompositionAndExportCSVReport: one record *)

\* task.businessStatus?.coding?.[0].code
BusinessStatus(task) ==
    IF Has(task, "businessStatus") /\ Has(task.businessStatus, "coding")
    THEN Get(task.businessStatus.coding[1], "code") ELSE Undefined

\* a condition that only keeps the declared records out
ExportEligible_NotDeclared(businessStatus) == businessStatus # "DECLARED"

\* the condition that lets a record through to the resolution
ExportEligible(businessStatus) ==
    businessStatus = "CERTIFIED" \/ businessStatus = "REGISTERED"

\* composition.section without the sections that are not exported
FilterSections(composition) ==
    IF Has(composition, "section")
    THEN Put(composition, "section",
             SelectSeq(composition.section,
                       LAMBDA sec : /\ Truthy(Get(sec, "title"))
                                    /\ sec.title \notin {"Certificates", "Supporting Documents"}))
    ELSE composition

\* the event decided by the death title, every other title a birth
EventOf_ByDeathTitle(composition) ==
    IF Get(composition, "title") = "Death Declaration" THEN "Death" ELSE "Birth"

\* fullComposition.event
EventOf(composition) ==
    IF Get(composition, "title") = "Birth Declaration" THEN "Birth" ELSE "Death"

\* a step's result with the calls of the steps before it
Merge(before, step) == [step EXCEPT !.fetched = before.fetched \cup step.fetched]

\* the four resolution steps in their order; a step that throws ends them
PatientStep(composition, locations, fault) ==
    setPatientsDetailsInComposition(composition, [event |-> EventOf(composition)],
                                    locations, fault)

LocationStep(r, composition, locations, task, fault) ==
    IF r.err THEN r
    ELSE Merge(r, setLocationInComposition(composition, r.fc, locations, task, fault))

ObservationStep(r, composition, fault) ==
    IF r.err THEN r
    ELSE Merge(r, setObservationDetailsInComposition(composition, r.fc, fault))

InformantStep(r, composition, locations, fault) ==
    IF r.err THEN r
    ELSE Merge(r, setInformantDetailsInComposition(composition, r.fc, locations, fault))

ResolveComposition(composition, locations, task, fault) ==
    InformantStep(
        ObservationStep(
            LocationStep(PatientStep(composition, locations, fault),
                         composition, locations, task, fault),
            composition, fault),
        composition, locations, fault)

\* the row built from a resolved fullComposition and its write
WriteRow(r, fault) ==
    IF r.err THEN [outcome |-> "error", fetched |-> r.fetched, full |-> NoDoc, row |-> NoDoc]
    ELSE IF fault = "Write"
    THEN [outcome |-> "error", fetched |-> r.fetched, full |-> r.fc, row |-> NoDoc]
    ELSE [outcome |-> r.fc.event, fetched |-> r.fetched, full |-> r.fc,
          row |-> IF r.fc.event = "Birth" THEN BirthRow(r.fc)
                  ELSE IF r.fc.event = "Death" THEN DeathRow(r.fc) ELSE NoDoc]

\* The body of the try block for the record the cursor returns.  outcome is
\* "error" (the catch block ran), "skipped" (not eligible), "Birth" or
\* "Death" (a row went to that writer); fetched are the
\* getCollectionDocuments / Observation queries made; full is the
\* fullComposition once resolved; row is the record handed to the writer.
ExportComposition(composition, locations, fault) ==
    LET tasks == getTaskDocByCompositionId(Ref("Composition", composition.id))
        none == [outcome |-> "error", fetched |-> {}, full |-> NoDoc, row |-> NoDoc]
    IN IF fault = "Next" \/ fault = "Task" \/ Len(tasks) = 0 THEN none
       ELSE IF ~ExportEligible(BusinessStatus(tasks[1]))
       THEN [none EXCEPT !.outcome = "skipped"]
       ELSE WriteRow(ResolveComposition(FilterSections(composition), locations,
                                        tasks[1], fault), fault)

\* the catch block around the while loop instead of inside it
AfterRecord_CatchAroundLoop(outcome) ==
    IF outcome = "error" THEN "aborted" ELSE "cursor"

\* where the loop stands after an iteration: the catch block is inside the
\* while loop, so it is back at compositionsCursor.hasNext()
AfterRecord(outcome) == "cursor"

\* the call that rejects while a record is exported, if any: "Next" is
\* compositionsCursor.next(), "Write" is writeRecords, the others are the
\* store queries of the resolution
Faults == { "None", "Next", "Task", "Patient", "Encounter", "Observation",
            "RelatedPerson", "InformantPatient", "Write" }

-----------------------------------------------------------------------------
(* Compositions the cursor may return *)

Sec(title, type, id) == [title |-> title, entry |-> << [reference |-> Ref(type, id)] >>]

Parents ==
    << Sec("Child details", "Patient", "p1"),
       Sec("Mother's details", "Patient", "p2"),
       Sec("Father's details", "Patient", "p5") >>

Attachments ==
    << [title |-> "Certificates", entry |-> << [reference |-> Ref("DocumentReference", "x")] >>],
       Sec("Supporting Documents", "Patient", "p3") >>

EncounterSec(enc) ==
    IF enc = "" THEN << >> ELSE << Sec("Birth encounter", "Encounter", enc) >>

InformantSec(rp) ==
    IF rp = "" THEN << >> ELSE << Sec("Informant's details", "RelatedPerson", rp) >>

Birth(id, enc, rp) ==
    [id |-> id, title |-> "Birth Declaration",
     section |-> Parents \o EncounterSec(enc) \o InformantSec(rp) \o Attachments]

Death(id, enc, rp) ==
    [id |-> id, title |-> "Death Declaration",
     section |-> << Sec("Deceased details", "Patient", "p3") >>
                 \o EncounterSec(enc) \o InformantSec(rp)]

Compositions ==
    { Birth(id, "o1", "rp1") :
        id \in { "registered", "certified", "declared", "rejected", "nocode",
                 "nostatus", "notask" } }
    \cup { Birth("registered", enc, "rp4") :
             enc \in { "e1", "e2", "e3", "e4", "e5", "e6", "e7", "e8", "gone",
                       "o3", "o4", "o5" } }
    \cup { Birth("certified", "e1", rp) : rp \in { "", "rp2", "rp3", "gone" } }
    \cup { Birth("registered", "", "rp1"), Birth("certified", "", ""),
           Birth("declared", "", "") }
    \cup { Death("registered", enc, "rp1") : enc \in { "o2", "o3", "o4", "o5", "e2" } }
    \cup { Death("certified", "", "rp1"), Death("certified", "o2", ""),
           Death("certified", "o2", "rp2"), Death("declared", "o2", "rp1"),
           Death("notask", "o4", "rp1") }
    \cup { \* no section refers to a Patient
           [id |-> "registered", title |-> "Birth Declaration",
            section |-> EncounterSec("o1") \o InformantSec("rp1")],
           \* no section at all
           [id |-> "registered", title |-> "Birth Declaration"],
           \* the Encounter section has no title, a Patient section an unmapped one
           [id |-> "certified", title |-> "Birth Declaration",
            section |-> << Sec("Witness", "Patient", "p1"),
                           [entry |-> << [reference |-> Ref("Encounter", "e1")] >>] >>
                        \o InformantSec("rp1")],
           \* a section without entry, one without reference
           [id |-> "certified", title |-> "Death Declaration",
            section |-> << [title |-> "Deceased details"],
                           [title |-> "Notes", entry |-> << [display |-> "n"] >>] >>
                        \o EncounterSec("o2") \o InformantSec("rp1")],
           \* nothing to resolve but a bare Location
           [id |-> "certified", title |-> "Birth Declaration",
            section |-> EncounterSec("e5") \o InformantSec("rp2")],
           [id |-> "certified", title |-> "Death Declaration",
            section |-> EncounterSec("e5") \o InformantSec("rp2")],
           \* titles other than the two declarations
           [id |-> "registered", title |-> "Marriage Declaration",
            section |-> Parents \o EncounterSec("o2") \o InformantSec("rp1")],
           [id |-> "certified",
            section |-> << Sec("Deceased details", "Patient", "p3") >>
                        \o EncounterSec("e6") \o InformantSec("rp4")] }

-----------------------------------------------------------------------------
(* startScript *)

NoLast == [outcome |-> "none"]

\* start dates: the first MaxStartDay days of 2022 and of the winter 2023/24
LeapBase == ParseDate([y |-> 2023, m |-> 12, d |-> 1])

StartDays == (0 .. MaxStartDay) \cup (LeapBase .. LeapBase + MaxStartDay)

DateArgs ==
    { [s |-> FormatDate(sn), e |-> FormatDate(en)] :
        <<sn, en>> \in { p \in StartDays \X (0 .. LeapBase + MaxStartDay + MaxSpan) :
                          /\ p[2] >= p[1] - MaxBack
                          /\ p[2] <= p[1] + MaxSpan } }

\* seedUsers is not running
NotSeeding ==
    /\ rawUsers = << >>
    /\ userTask = << >>
    /\ existing = {}
    /\ sent = << >>

InitCommon ==
    /\ pc = "start"
    /\ startDate = 0
    /\ endDate = 0
    /\ totalMonths = 0
    /\ month = 0
    /\ windows = <<>>
    /\ count = 0
    /\ processed = 0
    /\ birthFile = <<>>
    /\ deathFile = <<>>
    /\ caught = 0
    /\ last = NoLast

\* a run over an empty, reachable store, for every pair of dates
InitDates ==
    /\ InitCommon
    /\ NotSeeding
    /\ argv \in DateArgs
    /\ storeUp = TRUE
    /\ storeSize = 0

\* startScript up to the first test of the for loop
StartScript ==
    /\ pc = "start"
    /\ startDate' = NewDate(argv.s)
    /\ endDate' = NewDate(argv.e)
    /\ totalMonths' = TotalMonths(NewDate(argv.s), NewDate(argv.e))
    /\ birthFile' = Append(birthFile, BirthHeader)
    /\ deathFile' = Append(deathFile, DeathHeader)
    /\ month' = 0
    /\ pc' = "loop"
    /\ UNCHANGED seedVars
    /\ UNCHANGED <<argv, storeSize, storeUp, windows, count, processed, caught, last>>

\* a window without documents taken as a failure of the run
WindowNoRecord_Fatal ==
    /\ pc = "loop"
    /\ LessThan(month, totalMonths)
    /\ storeUp
    /\ windows' = Append(windows, WindowOf(startDate, endDate, month, totalMonths))
    /\ count' = 0
    /\ processed' = 0
    /\ caught' = 0
    /\ pc' = "crashed"
    /\ UNCHANGED seedVars
    /\ UNCHANGED <<argv, storeSize, storeUp, startDate, endDate, totalMonths,
                   month, birthFile, deathFile, last>>

\* one iteration of the for loop whose cursor counts no document
WindowNoRecord ==
    /\ pc = "loop"
    /\ LessThan(month, totalMonths)
    /\ storeUp
    /\ windows' = Append(windows, WindowOf(startDate, endDate, month, totalMonths))
    /\ count' = 0
    /\ processed' = 0
    /\ startDate' = addDays(LastOneMonth(startDate, endDate, month, totalMonths), 1)
    /\ month' = month + 1
    /\ caught' = 0
    /\ UNCHANGED seedVars
    /\ UNCHANGED <<pc, argv, storeSize, storeUp, endDate, totalMonths,
                   birthFile, deathFile, last>>

\* the for loop body with the two writers created inside the loop
WindowOpen_NewWriters ==
    /\ pc = "loop"
    /\ LessThan(month, totalMonths)
    /\ storeUp
    /\ \E c \in 1 .. storeSize :
          /\ count' = c
          /\ storeSize' = storeSize - c
    /\ processed' = 0
    /\ windows' = Append(windows, WindowOf(startDate, endDate, month, totalMonths))
    /\ caught' = 0
    /\ pc' = "cursor"
    /\ birthFile' = Append(birthFile, BirthHeader)
    /\ deathFile' = Append(deathFile, DeathHeader)
    /\ UNCHANGED seedVars
    /\ UNCHANGED <<argv, storeUp, startDate, endDate, totalMonths, month, last>>

\* the for loop body up to compositionsCursor.count() > 0
WindowOpen ==
    /\ pc = "loop"
    /\ LessThan(month, totalMonths)
    /\ storeUp
    /\ \E c \in 1 .. storeSize :
          /\ count' = c
          /\ storeSize' = storeSize - c
    /\ processed' = 0
    /\ windows' = Append(windows, WindowOf(startDate, endDate, month, totalMonths))
    /\ caught' = 0
    /\ pc' = "cursor"
    /\ UNCHANGED seedVars
    /\ UNCHANGED <<argv, storeUp, startDate, endDate, totalMonths, month,
                   birthFile, deathFile, last>>

\* what the try block does with composition c when store call f rejects
Exported(c, f) ==
    [composition |-> c, fault |-> f,
     r |-> ExportComposition(c, getCollectionDocuments("Location", << >>), f)]

\* the records during whose export a store call or the write rejects: the
\* two complete ones, which reach every call
Interrupted == { Birth("registered", "o1", "rp1"), Death("registered", "o2", "rp1") }

\* every iteration the loop may make: any record with no rejection, a
\* complete record with any rejection
Exports ==
    { Exported(c, "None") : c \in Compositions }
    \cup { Exported(c, f) : c \in Interrupted, f \in Faults \ {"None"} }

\* one iteration of the while loop: hasNext() is true, then the try block
ExportRecord ==
    /\ pc = "cursor"
    /\ processed < count
    /\ \E x \in Exports :
          /\ birthFile' = IF x.r.outcome = "Birth" THEN Append(birthFile, x.r.row)
                          ELSE birthFile
          /\ deathFile' = IF x.r.outcome = "Death" THEN Append(deathFile, x.r.row)
                          ELSE deathFile
          /\ caught' = IF x.r.outcome = "error" THEN caught + 1 ELSE caught
          /\ last' = [composition |-> x.composition, fault |-> x.fault,
                      outcome |-> x.r.outcome,
                      fetched |-> x.r.fetched, full |-> x.r.full]
          /\ pc' = AfterRecord(x.r.outcome)
    /\ processed' = processed + 1
    /\ UNCHANGED seedVars
    /\ UNCHANGED <<argv, storeSize, storeUp, startDate, endDate, totalMonths,
                   month, windows, count>>

\* compositionsCursor.hasNext() rejects: the while condition is outside the
\* try block, so makeCompositionAndExportCSVReport rejects, and so does
\* startScript, which nothing catches
CursorFails ==
    /\ pc = "cursor"
    /\ pc' = "crashed"
    /\ UNCHANGED seedVars
    /\ UNCHANGED <<argv, storeSize, storeUp, startDate, endDate, totalMonths,
                   month, windows, count, processed, birthFile, deathFile,
                   caught, last>>

\* compositionsCursor.hasNext() is false: the report returns, the loop steps
WindowDone ==
    /\ pc = "cursor"
    /\ processed = count
    /\ startDate' = addDays(LastOneMonth(startDate, endDate, month, totalMonths), 1)
    /\ month' = month + 1
    /\ pc' = "loop"
    /\ UNCHANGED seedVars
    /\ UNCHANGED <<argv, storeSize, storeUp, endDate, totalMonths, windows,
                   count, processed, birthFile, deathFile, caught, last>>

\* the first store query of a window rejects when the store is unreachable:
\* startScript rejects, nothing catches it
StoreUnreachable ==
    /\ pc = "loop"
    /\ LessThan(month, totalMonths)
    /\ ~storeUp
    /\ pc' = "crashed"
    /\ UNCHANGED seedVars
    /\ UNCHANGED <<argv, storeSize, storeUp, startDate, endDate, totalMonths,
                   month, windows, count, processed, birthFile, deathFile,
                   caught, last>>

\* the for loop is over: disconnect() and process.exit()
Disconnect ==
    /\ pc = "loop"
    /\ ~LessThan(month, totalMonths)
    /\ pc' = "done"
    /\ UNCHANGED seedVars
    /\ UNCHANGED <<argv, storeSize, storeUp, startDate, endDate, totalMonths,
                   month, windows, count, processed, birthFile, deathFile,
                   caught, last>>

\* the date arguments of the runs over a populated store: three well-formed
\* pairs, a start date of month 13, an end date that is no date at all
RunArgs ==
    { [s |-> [y |-> 2022, m |-> 1, d |-> 1], e |-> [y |-> 2022, m |-> 3, d |-> 15]],
      [s |-> [y |-> 2024, m |-> 2, d |-> 10], e |-> [y |-> 2024, m |-> 2, d |-> 29]],
      [s |-> [y |-> 2022, m |-> 3, d |-> 1], e |-> [y |-> 2022, m |-> 1, d |-> 15]],
      [s |-> [y |-> 2022, m |-> 13, d |-> 1], e |-> [y |-> 2022, m |-> 3, d |-> 15]],
      [s |-> [y |-> 2022, m |-> 1, d |-> 1], e |-> [y |-> 2022, m |-> 0, d |-> 0]] }

Init ==
    /\ InitCommon
    /\ NotSeeding
    /\ argv \in RunArgs
    /\ storeUp \in BOOLEAN
    /\ storeSize \in 0 .. MaxRecords

Next ==
    \/ StartScript
    \/ WindowNoRecord
    \/ WindowOpen
    \/ ExportRecord
    \/ CursorFails
    \/ WindowDone
    \/ StoreUnreachable
    \/ Disconnect

Spec == Init /\ [][Next]_vars

NextDates == StartScript \/ WindowNoRecord \/ Disconnect

SpecDates == InitDates /\ [][NextDates]_vars

\* every tenth start day with every end day a multiple of ten days away
SparseDateArgs ==
    { a \in DateArgs :
        /\ ParseDate(a.s) % 10 = 0
        /\ (ParseDate(a.e) - ParseDate(a.s)) % 10 = 0 }

InitSparseDates ==
    /\ InitCommon
    /\ NotSeeding
    /\ argv \in SparseDateArgs
    /\ storeUp = TRUE
    /\ storeSize = 0

\* startScript is one sequential async function: as long as a step of it can
\* be taken, one is taken
SpecDatesFair == InitSparseDates /\ [][NextDates]_vars /\ WF_vars(NextDates)

-----------------------------------------------------------------------------
(* seedUsers *)

\* longest user list getUseres() returns
MaxUsers == 2

\* the roleIdMap argument: the roles the system recognizes
roleIdMap == ("Field Agent" :> "role-1") @@ ("Local Registrar" :> "role-2")

\* GET ${GATEWAY_URL}/location?identifier=...: the offices the gateway finds
Offices == ("CRVS_OFFICE_A" :> "location-a")

\* locationBundle.entry?.[0]?.resource?.id
getOfficeIdFromIdentifier(identifier) ==
    IF identifier \in DOMAIN Offices THEN Offices[identifier] ELSE Undefined

\* Boolean(searchUsers.totalItems) for the users the gateway has at the time
\* it answers the query
userAlreadyExists(users, username) == username \in users

Usernames == { "k.mweene", "j.banda" }

\* entries of the user list: UserSchema asks for strings and known roles,
\* not for distinct usernames
UserMetadata ==
    { [username |-> "k.mweene", primaryOfficeId |-> "CRVS_OFFICE_A", role |-> "Field Agent"],
      [username |-> "j.banda", primaryOfficeId |-> "CRVS_OFFICE_A", role |-> "Local Registrar"],
      [username |-> "k.mweene", primaryOfficeId |-> "CRVS_OFFICE_B", role |-> "Field Agent"],
      [username |-> "j.banda", primaryOfficeId |-> "CRVS_OFFICE_A", role |-> "Police Officer"] }

UserLists == UNION { [1 .. n -> UserMetadata] : n \in 1 .. MaxUsers }

\* rawUsers.map(async ...) has started every callback: each has sent its
\* searchUsers query and awaits the answer
InitSeed ==
    /\ InitCommon
    /\ argv = [s |-> Epoch, e |-> Epoch]
    /\ storeUp = TRUE
    /\ storeSize = 0
    /\ rawUsers \in UserLists
    /\ userTask = [i \in 1 .. Len(rawUsers) |-> "search"]
    /\ existing \in SUBSET Usernames
    /\ sent = << >>

\* the gateway answers the searchUsers query of callback i: the callback
\* returns when the user exists, otherwise it asks for the office
SearchAnswered(i) ==
    /\ userTask[i] = "search"
    /\ userTask' = [userTask EXCEPT ![i] =
                      IF userAlreadyExists(existing, rawUsers[i].username)
                      THEN "skipped" ELSE "office"]
    /\ UNCHANGED <<rawUsers, existing, sent>>
    /\ UNCHANGED exportVars

\* the gateway answers the location request of callback i: the callback
\* returns without an office or a recognized role, otherwise it sends the
\* createOrUpdateUser mutation
OfficeAnswered(i) ==
    /\ userTask[i] = "office"
    /\ IF getOfficeIdFromIdentifier(rawUsers[i].primaryOfficeId) = Undefined
          \/ rawUsers[i].role \notin DOMAIN roleIdMap
       THEN /\ userTask' = [userTask EXCEPT ![i] = "skipped"]
            /\ sent' = sent
       ELSE /\ userTask' = [userTask EXCEPT ![i] = "creating"]
            /\ sent' = Append(sent, [username |-> rawUsers[i].username,
                                     existed |-> rawUsers[i].username \in existing])
    /\ UNCHANGED <<rawUsers, existing>>
    /\ UNCHANGED exportVars

\* the gateway handles the mutation of callback i: it has the user from then
\* on; for a username it already has it may answer with an error, which
\* parseGQLResponse raises
CreateAnswered(i) ==
    /\ userTask[i] = "creating"
    /\ existing' = existing \cup { rawUsers[i].username }
    /\ \E answer \in IF rawUsers[i].username \in existing
                     THEN { "created", "raised" } ELSE { "created" } :
          userTask' = [userTask EXCEPT ![i] = answer]
    /\ UNCHANGED <<rawUsers, sent>>
    /\ UNCHANGED exportVars

\* Promise.all: the callbacks advance in any order
NextSeed ==
    \E i \in 1 .. Len(rawUsers) :
        \/ SearchAnswered(i)
        \/ OfficeAnswered(i)
        \/ CreateAnswered(i)

SpecSeed == InitSeed /\ [][NextSeed]_vars

-----------------------------------------------------------------------------
(* Records of the cursor loop *)

\* the latest iteration exported a record
Exporting == last.outcome # "none"

Wrote == last.outcome \in {"Birth", "Death"}

\* the row the latest iteration handed to a writer
LastRow ==
    IF last.outcome = "Birth" THEN birthFile[Len(birthFile)]
    ELSE deathFile[Len(deathFile)]

\* the sections of the latest record that refer to a document of a type
SectionsTo(type) ==
    IF Has(last.composition, "section")
    THEN SelectSeq(last.composition.section, LAMBDA x : RefersTo(x, type))
    ELSE << >>

\* the Task documents of the latest record and its business status code
LastTasks ==
    SelectSeq(TaskDocs, LAMBDA t : t.focus = Ref("Composition", last.composition.id))

LastStatusCoded ==
    /\ Has(LastTasks[1], "businessStatus")
    /\ Has(LastTasks[1].businessStatus, "coding")
    /\ Has(LastTasks[1].businessStatus.coding[1], "code")

LastEligible ==
    /\ Len(LastTasks) > 0
    /\ LastStatusCoded
    /\ LastTasks[1].businessStatus.coding[1].code \in {"CERTIFIED", "REGISTERED"}

\* C1: when the export of a record throws (a store call or the write
\* rejects, the Task or a referenced document is missing), no row is written
\* for it and the loop is back at the cursor of the same window, with the
\* same count, so the records after it are still fetched and attempted.
C1_RecordFailureIsolated ==
    [][ (pc = "cursor" /\ processed' = processed + 1) =>
          /\ (last'.fault # "None" \/ Len(LastTasks') = 0) => last'.outcome = "error"
          /\ last'.outcome = "error" =>
                /\ birthFile' = birthFile
                /\ deathFile' = deathFile
                /\ caught' = caught + 1
                /\ pc' = "cursor"
                /\ count' = count
                /\ month' = month
                /\ windows' = windows ]_vars

\* a record was written after an earlier record of the same cursor threw
C1_Witness ==
    /\ pc = "cursor"
    /\ processed = 2
    /\ caught = 1
    /\ last.outcome = "Birth"
    /\ Len(birthFile) = 2
    /\ Len(deathFile) = 1

\* C4: a record whose Task has a business status code other than CERTIFIED
\* and REGISTERED, or none, writes no row to either file and makes no
\* Patient, Encounter, Observation or RelatedPerson query.
C4_IneligibleNotExported ==
    [][ (pc = "cursor" /\ processed' = processed + 1
         /\ Len(LastTasks') > 0 /\ ~LastEligible') =>
          /\ birthFile' = birthFile
          /\ deathFile' = deathFile
          /\ \A f \in last'.fetched :
                f.collection \notin {"Patient", "Encounter", "Observation", "RelatedPerson"}
          /\ last'.full = NoDoc ]_vars

\* a record whose Task has no business status code was passed over
C4_Witness ==
    /\ Exporting
    /\ last.composition.id = "nocode"
    /\ last.outcome = "skipped"
    /\ last.fetched = {}

\* C5: an eligible record with no section referring to an Encounter gets a
\* row whose healthCenter, event district and event state columns are ''.
C5_NoEncounterEmptyLocation ==
    (Exporting /\ LastEligible /\ last.fault = "None"
     /\ Has(last.composition, "section") /\ Len(SectionsTo("Encounter")) = 0) =>
        /\ Wrote
        /\ LastRow.healthCenter = ""
        /\ last.outcome = "Birth" => (LastRow.birthDistrict = "" /\ LastRow.birthState = "")

\* C6: an eligible record with no section referring to a RelatedPerson gets
\* a row whose informant columns are all ''.
C6_NoInformantStillExported ==
    (Exporting /\ LastEligible /\ last.fault = "None"
     /\ Len(SectionsTo("Encounter")) > 0
     /\ Len(SectionsTo("RelatedPerson")) = 0) =>
        /\ Wrote
        /\ \A c \in { "informantDOB", "informantMaritalStatus", "informantOccupation",
                      "informantCity", "informantDistrict", "informantState",
                      "informantRelationship" } : LastRow[c] = ""

\* the name of the Location with an id, '' when there is none
NameOfLocation(id) ==
    IF \E i \in 1 .. Len(LocationDocs) : LocationDocs[i].id = id /\ Has(LocationDocs[i], "name")
    THEN LocationDocs[CHOOSE i \in 1 .. Len(LocationDocs) : LocationDocs[i].id = id].name
    ELSE ""

\* the id a Location names as its parent, "undefined" when it names none
ParentOfLocation(id) ==
    IF \E i \in 1 .. Len(LocationDocs) : LocationDocs[i].id = id /\ Has(LocationDocs[i], "partOf")
    THEN LocationDocs[CHOOSE i \in 1 .. Len(LocationDocs) : LocationDocs[i].id = id].partOf.id
    ELSE "undefined"

\* the leaf Location of the latest record: that of its Encounter
LastLeaf ==
    FindById(LocationDocs,
             FindById(EncounterDocs, SectionsTo("Encounter")[1].entry[1].reference.id).location.id)

\* an address field of the leaf, "undefined" when absent
LeafAddress(field) ==
    IF Has(LastLeaf, "address") /\ Has(LastLeaf.address, field)
    THEN LastLeaf.address[field] ELSE "undefined"

\* C7: the type tag of the leaf Location alone selects the strategy: for
\* HEALTH_FACILITY district is the Location named by the leaf's partOf and
\* state the one named by that district's partOf, whatever the address says;
\* otherwise they are the Locations named by address.district and
\* address.state, whatever partOf says; a missing one gives '' and the
\* record is still exported.
C7_HierarchyByTypeTag ==
    /\ (Exporting /\ last.full # NoDoc) =>
          IF Has(LastLeaf, "typeCode") /\ LastLeaf.typeCode = "HEALTH_FACILITY"
          THEN /\ last.full.eventDistrict = NameOfLocation(ParentOfLocation(LastLeaf.id))
               /\ last.full.eventState =
                     NameOfLocation(ParentOfLocation(ParentOfLocation(LastLeaf.id)))
          ELSE /\ last.full.eventDistrict = NameOfLocation(LeafAddress("district"))
               /\ last.full.eventState = NameOfLocation(LeafAddress("state"))
    /\ \A enc \in { "e1", "e2", "e3", "e4", "e5", "e6" } :
          (Exporting /\ last.composition = Birth("registered", enc, "rp4"))
              => last.outcome = "Birth"

\* a health facility whose parent is not in the store: '' and a row
C7_Witness ==
    /\ last.outcome = "Birth"
    /\ LastLeaf.id = "hf2"
    /\ LastRow.healthCenter = "Health Centre Two"
    /\ LastRow.birthDistrict = ""
    /\ LastRow.birthState = ""

\* C8: every row handed to a writer has exactly the columns of its file, each
\* with a string, childOrd with a number; the header is the first record.
C8_RowsFullyShaped ==
    /\ \A i \in 2 .. Len(birthFile) :
          /\ DOMAIN birthFile[i] = Range(BirthColumns)
          /\ birthFile[i].childOrd \in Nat
          /\ \A c \in Range(BirthColumns) \ {"childOrd"} :
                birthFile[i][c] \in STRING /\ birthFile[i][c] # Undefined
    /\ \A i \in 2 .. Len(deathFile) :
          /\ DOMAIN deathFile[i] = Range(DeathColumns)
          /\ \A c \in Range(DeathColumns) :
                deathFile[i][c] \in STRING /\ deathFile[i][c] # Undefined

\* a birth row for which no role, no observation and no Location name was
\* resolved: every column at its default
C8_Witness ==
    /\ last.outcome = "Birth"
    /\ DOMAIN last.full = {"event", "healthCenter", "eventDistrict", "eventState",
                           "eventCity", "officeLocation", "observations"}
    /\ LastRow.childOrd = 0
    /\ \A c \in Range(BirthColumns) \ {"childOrd"} : LastRow[c] = ""

\* the Observation documents of the Encounter of the latest record
LastObservations ==
    SelectSeq(ObservationDocs,
              LAMBDA o : o.context = SectionsTo("Encounter")[1].entry[1].reference)

\* those whose primary coding is a code
LastObservationsOf(code) ==
    SelectSeq(LastObservations,
              LAMBDA o : Has(o.code, "coding") /\ Has(o.code.coding[1], "code")
                         /\ o.code.coding[1].code = code)

HasCodedValue(o) ==
    /\ Has(o, "valueCodeableConcept")
    /\ Has(o.valueCodeableConcept, "coding")
    /\ Has(o.valueCodeableConcept.coding[1], "code")

\* C9: in a death row causeOfDeathEstablished is "Yes" when at least one
\* Observation of the Encounter has the primary coding
\* 'cause-of-death-established' and a coded-concept value, "No" when no
\* Observation has that coding, and never anything else.
C9_EstablishedYesNo ==
    last.outcome = "Death" =>
        LET matching == LastObservationsOf("cause-of-death-established")
        IN /\ LastRow.causeOfDeathEstablished \in {"Yes", "No"}
           /\ (\E i \in 1 .. Len(matching) : HasCodedValue(matching[i]))
                 => LastRow.causeOfDeathEstablished = "Yes"
           /\ Len(matching) = 0 => LastRow.causeOfDeathEstablished = "No"

\* an Observation has no value of the shape its field expects
LacksValue(o, shape) ==
    CASE shape = "coded" -> ~HasCodedValue(o)
      [] shape = "quantity" ->
           ~(Has(o, "valueQuantity") /\ Has(o.valueQuantity, "value"))
      [] shape = "quantityUnit" ->
           ~(Has(o, "valueQuantity") /\ Has(o.valueQuantity, "value")
             /\ Has(o.valueQuantity, "unit"))
      [] shape = "string" -> ~Has(o, "valueString")

\* C10: for each of the eleven observation fields, when the Observations
\* with its code all lack a value of the expected shape, the field is ''
\* and the extraction does not throw.
C10_MissingValueIsEmpty ==
    (Exporting /\ last.full # NoDoc) =>
        \A k \in 1 .. Len(ObservationFields) :
            LET matching == LastObservationsOf(ObservationFields[k].code)
            IN (\A i \in 1 .. Len(matching) :
                    LacksValue(matching[i], ObservationFields[k].shape))
                  => last.full.observations[ObservationFields[k].field] = ""

-----------------------------------------------------------------------------
(* Windows of the scheduler *)

ArgStart == ParseDate(argv.s)
ArgEnd == ParseDate(argv.e)

\* the days 'yyyy-MM-dd' of the two formatted dates of window i
WinStart(i) == ParseDate(windows[i].start.date)
WinEnd(i) == ParseDate(windows[i].end.date)
WinDays(i) == WinStart(i) .. WinEnd(i)

\* calendar-month difference read off the two arguments
ArgMonthDiff == (argv.e.y - argv.s.y) * 12 + (argv.e.m - argv.s.m)

-----------------------------------------------------------------------------
(* Start-up *)

\* one of the two date arguments does not parse
ArgsMalformed == ~WellFormed(argv.s) \/ ~WellFormed(argv.e)

\* C11: when a date argument is malformed the run fails at start-up: no
\* window is processed, nothing is written to either file, and the process
\* does not end through process.exit() with its success code.
C11_MalformedDatesFatal ==
    ArgsMalformed =>
        /\ windows = << >>
        /\ birthFile = << >>
        /\ deathFile = << >>
        /\ pc # "done"

\* C12: when the store is unreachable at connect time the run is aborted
\* before any window: no header is written, the for loop is not entered and
\* no store query is issued (so none rejects).
C12_UnreachableStoreAborts ==
    ~storeUp =>
        /\ birthFile = << >>
        /\ deathFile = << >>
        /\ windows = << >>
        /\ pc \notin {"cursor", "crashed"}

-----------------------------------------------------------------------------
(* Output files *)

\* a record of a file that carries the header labels
IsHeader(record, header) ==
    \A c \in DOMAIN header \ {"childOrd"} : record[c] = header[c]

HeaderOnceFirst(file, header) ==
    /\ Len(file) >= 1
    /\ \A i \in 1 .. Len(file) : IsHeader(file[i], header) <=> i = 1

\* C13: within a run each file receives its header row exactly once, before
\* every data row of either file, whatever the windows and records.
C13_HeaderOnceFirst ==
    /\ pc = "start" => birthFile = << >> /\ deathFile = << >>
    /\ pc # "start" =>
          /\ HeaderOnceFirst(birthFile, BirthHeader)
          /\ HeaderOnceFirst(deathFile, DeathHeader)

\* the second window of a run is being exported and each file holds a data
\* row under its header
C13_Witness ==
    /\ pc = "cursor"
    /\ Len(windows) = 2
    /\ Len(birthFile) = 2
    /\ Len(deathFile) = 2

\* the key list of a writer, its header record and its row object carry the
\* same keys in the same order, and every record written has these keys
SameColumns(columns, headerKeys, header, rowKeys, file) ==
    /\ headerKeys = columns
    /\ rowKeys = columns
    /\ DOMAIN header = Range(columns)
    /\ \A i \in 1 .. Len(file) : DOMAIN file[i] = Range(rowKeys)

\* C14: the birth output has exactly 32 columns and the death output exactly
\* 23: key list, header record and row object have these same keys in the
\* same order.
C14_Columns32And23 ==
    /\ Len(BirthColumns) = 32
    /\ Len(DeathColumns) = 23
    /\ SameColumns(BirthColumns, BirthHeaderKeys, BirthHeader, BirthRowKeys, birthFile)
    /\ SameColumns(DeathColumns, DeathHeaderKeys, DeathHeader, DeathRowKeys, deathFile)

\* C14 as amended: the birth output has exactly 34 columns and the death
\* output exactly 23, no key twice; key list, header record and row object
\* have these same keys in the same order, and so has every record written.
C14_Columns34And23 ==
    /\ Len(BirthColumns) = 34
    /\ Cardinality(Range(BirthColumns)) = 34
    /\ Len(DeathColumns) = 23
    /\ Cardinality(Range(DeathColumns)) = 23
    /\ SameColumns(BirthColumns, BirthHeaderKeys, BirthHeader, BirthRowKeys, birthFile)
    /\ SameColumns(DeathColumns, DeathHeaderKeys, DeathHeader, DeathRowKeys, deathFile)

\* a finished run that wrote a row under the header of each file
C14_Witness ==
    /\ pc = "done"
    /\ Len(birthFile) = 2
    /\ Len(deathFile) = 2

\* C15: an eligible record that resolves without error writes exactly one
\* row to exactly one file: the birth file if and only if its title is
\* exactly 'Birth Declaration', the death file for every other title and for
\* none.
C15_OneRowToOneFile ==
    [][ (pc = "cursor" /\ processed' = processed + 1
         /\ LastEligible' /\ last'.outcome # "error") =>
           IF Get(last'.composition, "title") = "Birth Declaration"
           THEN /\ Len(birthFile') = Len(birthFile) + 1
                /\ SubSeq(birthFile', 1, Len(birthFile)) = birthFile
                /\ deathFile' = deathFile
           ELSE /\ Len(deathFile') = Len(deathFile) + 1
                /\ SubSeq(deathFile', 1, Len(deathFile)) = deathFile
                /\ birthFile' = birthFile ]_vars

\* a record titled neither of the two declarations went to the death file
C15_Witness ==
    /\ Exporting
    /\ Get(last.composition, "title") = "Marriage Declaration"
    /\ last.outcome = "Death"
    /\ Len(deathFile) = 2
    /\ Len(birthFile) = 1

-----------------------------------------------------------------------------
(* Observation order *)

\* C16: for each of the eleven codes, when several Observations of the
\* Encounter have it as primary coding, the extracted field is the value of
\* the first of them in the store's result order.
C16_FirstObservationWins ==
    (Wrote /\ Len(SectionsTo("Encounter")) > 0) =>
        \A k \in 1 .. Len(ObservationFields) :
            LET matching == LastObservationsOf(ObservationFields[k].code)
            IN Len(matching) > 0 =>
                 last.full.observations[ObservationFields[k].field]
                     = ObservationValue(matching[1], ObservationFields[k].shape)

-----------------------------------------------------------------------------
(* Store queries *)

\* C17: getCollectionDocuments is never called with an empty id list for
\* Patient, Encounter or RelatedPerson: only Location is read as a whole.
C17_WholeCollectionOnlyLocation ==
    Exporting =>
        \A f \in last.fetched :
            f.collection \in {"Patient", "Encounter", "RelatedPerson"} => ~f.all

-----------------------------------------------------------------------------
(* Empty windows *)

\* C18: a window whose cursor counts no record writes no row and is not
\* fatal: the loop steps to the next window, the windows are processed in
\* chronological order, and a run of such windows ends, after as many windows
\* as totalMonths says, with the connection closed and the process exited,
\* each file holding its header only.
C18_EmptyWindowsNotFatal ==
    /\ [][ (pc = "loop" /\ Len(windows') = Len(windows) + 1 /\ count' = 0) =>
             /\ birthFile' = birthFile
             /\ deathFile' = deathFile
             /\ pc' = "loop"
             /\ month' = month + 1 ]_vars
    /\ [](\A i \in 1 .. Len(windows) - 1 : WinStart(i + 1) > WinEnd(i))
    /\ <>[](/\ pc = "done"
            /\ Len(windows) = (IF totalMonths > 0 THEN totalMonths ELSE 0)
            /\ birthFile = << BirthHeader >>
            /\ deathFile = << DeathHeader >>)

\* a finished run of three windows, none of which had a record
C18_Witness ==
    /\ pc = "done"
    /\ argv.s = [y |-> 2022, m |-> 1, d |-> 31]
    /\ argv.e = [y |-> 2022, m |-> 3, d |-> 2]
    /\ Len(windows) = 3
    /\ count = 0
    /\ birthFile = << BirthHeader >>
    /\ deathFile = << DeathHeader >>

-----------------------------------------------------------------------------
(* Cursor errors *)

\* C19: a store error raised by a cursor advance (hasNext or next) aborts the
\* current window only: the run is not ended by it, so the following windows
\* are processed and the connection is closed, and after a rejected next() no
\* further record of the window is attempted.
C19_CursorErrorAbortsWindowOnly ==
    [][ pc = "cursor" =>
          /\ pc' # "crashed"
          /\ (processed' = processed + 1 /\ last'.fault = "Next") => pc' = "loop" ]_vars

-----------------------------------------------------------------------------
(* Place of the event *)

\* the Patient filed as the deceased of the latest record: that of its last
\* section titled 'Deceased details'
DeceasedSections ==
    SelectSeq(SectionsTo("Patient"), LAMBDA x : Get(x, "title") = "Deceased details")

DeceasedDoc ==
    IF Len(DeceasedSections) = 0 THEN NoDoc
    ELSE FindById(PatientDocs, DeceasedSections[Len(DeceasedSections)].entry[1].reference.id)

\* a field of the first address of the deceased, '' when absent
DeceasedAddress(field) ==
    IF DeceasedDoc # NoDoc /\ Has(DeceasedDoc, "address")
       /\ Has(DeceasedDoc.address[1], field)
    THEN DeceasedDoc.address[1][field] ELSE ""

\* the name an address field of a Patient is replaced by
AddressName(id) == IF id = "" THEN "" ELSE NameOfLocation(id)

\* the district and state Locations of the leaf of the latest record
LeafDistrictId ==
    IF Has(LastLeaf, "typeCode") /\ LastLeaf.typeCode = "HEALTH_FACILITY"
    THEN ParentOfLocation(LastLeaf.id) ELSE LeafAddress("district")

LeafStateId ==
    IF Has(LastLeaf, "typeCode") /\ LastLeaf.typeCode = "HEALTH_FACILITY"
    THEN ParentOfLocation(ParentOfLocation(LastLeaf.id)) ELSE LeafAddress("state")

LeafCity == IF LeafAddress("city") = "undefined" THEN "" ELSE LeafAddress("city")

\* C20: in a death row deathDistrict, deathState and deathCity are the
\* address values of the deceased Patient (district and state replaced by the
\* names of their Locations), not the event location resolved from the
\* Encounter; in a birth row birthDistrict, birthState and birthCity are the
\* district, state and city resolved from the Encounter's Location.
C20_DeathPlaceFromDeceased ==
    /\ last.outcome = "Death" =>
          /\ LastRow.deathDistrict = AddressName(DeceasedAddress("district"))
          /\ LastRow.deathState = AddressName(DeceasedAddress("state"))
          /\ LastRow.deathCity = DeceasedAddress("city")
    /\ last.outcome = "Birth" =>
          /\ LastRow.birthDistrict = NameOfLocation(LeafDistrictId)
          /\ LastRow.birthState = NameOfLocation(LeafStateId)
          /\ LastRow.birthCity = LeafCity

\* a death row whose deceased lived in another district, state and town than
\* the health facility of the Encounter is in
C20_Witness ==
    /\ last.outcome = "Death"
    /\ LastRow.deathDistrict = "District Two"
    /\ LastRow.deathState = "State Two"
    /\ LastRow.deathCity = "Last Town"
    /\ last.full.eventDistrict = "District One"
    /\ last.full.eventState = "State One"
    /\ last.full.eventCity = "Facility Town"

-----------------------------------------------------------------------------
(* Seeding users *)

\* C21: under every interleaving of the callbacks of seedUsers a
\* createOrUpdateUser request is sent for a username only if no user of that
\* name exists when it is sent, and at most one such request is sent per
\* username, also when the user list names a username more than once.
C21_OneCreatePerUsername ==
    /\ \A k \in 1 .. Len(sent) : ~sent[k].existed
    /\ \A k, l \in 1 .. Len(sent) :
          k # l => sent[k].username # sent[l].username

====
